---- MODULE Spec2Model ----
(***************************************************************************)
(* Model of uart_barcode_scanner.py: the GM65 serial barcode scanner       *)
(* driver (frame encoding, CRC-16 and the write/read handshake).           *)
(***************************************************************************)
EXTENDS Integers, Sequences, FiniteSets, TLC

VARIABLES handle, conn, wire, inbuf, outcome, opStart, nops, crcIn, crcOut

vars == <<handle, conn, wire, inbuf, outcome, opStart, nops, crcIn, crcOut>>

(***************************************************************************)
(* Bounds of the model.                                                    *)
(***************************************************************************)
\* number of public operations called on one handle after construction
MaxOps == 1
\* longest barcode data the device sends in answer to a scan trigger
MaxData == 1
\* longest byte string fed to crc16 from the sample alphabet
MaxCrcLen == 2
\* number of direct __send_command calls on one handle
MaxCalls == 1
\* number of operations on one handle in the longer runs
MaxSeq == 2

(***************************************************************************)
(* Python integer and bytes primitives used by the source.                 *)
(***************************************************************************)
Byte == 0..255

\* a ^ b on non-negative ints
RECURSIVE Xor(_, _)
Xor(a, b) ==
    IF a = 0 THEN b
    ELSE IF b = 0 THEN a
    ELSE (((a % 2) + (b % 2)) % 2) + (2 * Xor(a \div 2, b \div 2))

\* int.bit_length() of a non-negative int
RECURSIVE BitLength(_)
BitLength(n) == IF n = 0 THEN 0 ELSE 1 + BitLength(n \div 2)

\* math.ceil(bits / 8)
CeilDiv8(bits) == (bits + 7) \div 8

\* n zero bytes (none when n <= 0)
Zeros(n) == [i \in 1..n |-> 0]

\* the minimal big-endian digits of a non-negative int (empty for 0)
RECURSIVE Digits(_)
Digits(n) == IF n = 0 THEN <<>> ELSE Digits(n \div 256) \o <<n % 256>>

\* whether int.to_bytes(size, 'big') succeeds (else OverflowError)
IntFits(n, size) == n >= 0 /\ Len(Digits(n)) <= size

\* int.to_bytes(size, 'big') of an int that fits
IntToBytes(n, size) == Zeros(size - Len(Digits(n))) \o Digits(n)

(***************************************************************************)
(* crc16: CRC-16 (CCITT) with the precomputed lookup table.                *)
(***************************************************************************)
table == <<
    \H0000, \H1021, \H2042, \H3063, \H4084, \H50A5, \H60C6, \H70E7, \H8108, \H9129, \HA14A, \HB16B, \HC18C, \HD1AD, \HE1CE, \HF1EF,
    \H1231, \H0210, \H3273, \H2252, \H52B5, \H4294, \H72F7, \H62D6, \H9339, \H8318, \HB37B, \HA35A, \HD3BD, \HC39C, \HF3FF, \HE3DE,
    \H2462, \H3443, \H0420, \H1401, \H64E6, \H74C7, \H44A4, \H5485, \HA56A, \HB54B, \H8528, \H9509, \HE5EE, \HF5CF, \HC5AC, \HD58D,
    \H3653, \H2672, \H1611, \H0630, \H76D7, \H66F6, \H5695, \H46B4, \HB75B, \HA77A, \H9719, \H8738, \HF7DF, \HE7FE, \HD79D, \HC7BC,
    \H48C4, \H58E5, \H6886, \H78A7, \H0840, \H1861, \H2802, \H3823, \HC9CC, \HD9ED, \HE98E, \HF9AF, \H8948, \H9969, \HA90A, \HB92B,
    \H5AF5, \H4AD4, \H7AB7, \H6A96, \H1A71, \H0A50, \H3A33, \H2A12, \HDBFD, \HCBDC, \HFBBF, \HEB9E, \H9B79, \H8B58, \HBB3B, \HAB1A,
    \H6CA6, \H7C87, \H4CE4, \H5CC5, \H2C22, \H3C03, \H0C60, \H1C41, \HEDAE, \HFD8F, \HCDEC, \HDDCD, \HAD2A, \HBD0B, \H8D68, \H9D49,
    \H7E97, \H6EB6, \H5ED5, \H4EF4, \H3E13, \H2E32, \H1E51, \H0E70, \HFF9F, \HEFBE, \HDFDD, \HCFFC, \HBF1B, \HAF3A, \H9F59, \H8F78,
    \H9188, \H81A9, \HB1CA, \HA1EB, \HD10C, \HC12D, \HF14E, \HE16F, \H1080, \H00A1, \H30C2, \H20E3, \H5004, \H4025, \H7046, \H6067,
    \H83B9, \H9398, \HA3FB, \HB3DA, \HC33D, \HD31C, \HE37F, \HF35E, \H02B1, \H1290, \H22F3, \H32D2, \H4235, \H5214, \H6277, \H7256,
    \HB5EA, \HA5CB, \H95A8, \H8589, \HF56E, \HE54F, \HD52C, \HC50D, \H34E2, \H24C3, \H14A0, \H0481, \H7466, \H6447, \H5424, \H4405,
    \HA7DB, \HB7FA, \H8799, \H97B8, \HE75F, \HF77E, \HC71D, \HD73C, \H26D3, \H36F2, \H0691, \H16B0, \H6657, \H7676, \H4615, \H5634,
    \HD94C, \HC96D, \HF90E, \HE92F, \H99C8, \H89E9, \HB98A, \HA9AB, \H5844, \H4865, \H7806, \H6827, \H18C0, \H08E1, \H3882, \H28A3,
    \HCB7D, \HDB5C, \HEB3F, \HFB1E, \H8BF9, \H9BD8, \HABBB, \HBB9A, \H4A75, \H5A54, \H6A37, \H7A16, \H0AF1, \H1AD0, \H2AB3, \H3A92,
    \HFD2E, \HED0F, \HDD6C, \HCD4D, \HBDAA, \HAD8B, \H9DE8, \H8DC9, \H7C26, \H6C07, \H5C64, \H4C45, \H3CA2, \H2C83, \H1CE0, \H0CC1,
    \HEF1F, \HFF3E, \HCF5D, \HDF7C, \HAF9B, \HBFBA, \H8FD9, \H9FF8, \H6E17, \H7E36, \H4E55, \H5E74, \H2E93, \H3EB2, \H0ED1, \H1EF0
>>

\* crc16_step indexing the table by the low byte of crc
crc16_step_low_index(crc, byte) ==
    (Xor(crc * 256, table[Xor(crc % 256, byte) + 1])) % 65536

\* one round of the loop body: crc = (crc << 8) ^ table[(crc >> 8) ^ byte]; crc &= 0xFFFF
crc16_step(crc, byte) ==
    (Xor(crc * 256, table[Xor(crc \div 256, byte) + 1])) % 65536

\* for byte in data: the loop over data, run as the loop over its first half
\* followed by the loop over its second half (the test on mid makes TLC
\* finish the first half before it starts the second)
RECURSIVE crc16_loop(_, _)
crc16_loop(crc, data) ==
    IF data = <<>> THEN crc
    ELSE IF Len(data) = 1 THEN crc16_step(crc, data[1])
    ELSE LET half == Len(data) \div 2
             mid == crc16_loop(crc, SubSeq(data, 1, half))
         IN  IF mid >= 0 THEN crc16_loop(mid, SubSeq(data, half + 1, Len(data)))
             ELSE mid

\* crc16 started from 0xFFFF
crc16_init_ffff(data) == IntToBytes(crc16_loop(65535, data), 2)

\* crc16 returning its two bytes low byte first
crc16_little_endian(data) ==
    <<crc16_loop(0, data) % 256, crc16_loop(0, data) \div 256>>

crc16(data) == IntToBytes(crc16_loop(0, data), 2)


(***************************************************************************)
(* Payload values.  A Python int is unbounded; the model writes the int    *)
(* m * 256^k as the pair [m, k] so that values needing up to 256 bytes     *)
(* can be given to __send_command.                                         *)
(***************************************************************************)
PyInt(m, k) == [m |-> m, k |-> k]

\* data.bit_length()
bit_length(data) == IF data.m = 0 THEN 0 ELSE BitLength(data.m) + 8 * data.k

\* whether data.to_bytes(size, 'big') succeeds (else OverflowError)
DataFits(data, size) ==
    data.m >= 0 /\ (data.m = 0 \/ Len(Digits(data.m)) + data.k <= size)

\* DataToBytes with byteorder 'little'
DataToBytes_little_endian(data, size) ==
    IF data.m = 0 THEN Zeros(size)
    ELSE LET big == Zeros(size - Len(Digits(data.m)) - data.k) \o Digits(data.m) \o Zeros(data.k)
         IN  [i \in 1..Len(big) |-> big[Len(big) + 1 - i]]

\* data.to_bytes(size, 'big') of a value that fits
DataToBytes(data, size) ==
    IF data.m = 0 THEN Zeros(size)
    ELSE Zeros(size - Len(Digits(data.m)) - data.k) \o Digits(data.m) \o Zeros(data.k)

\* bool is an int: True is 1 and False is 0
BoolInt(b) == IF b THEN PyInt(1, 0) ELSE PyInt(0, 0)

(***************************************************************************)
(* GM65 constants.                                                         *)
(***************************************************************************)
ScanMode == <<0, PyInt(\HD5, 0)>>
TriggerScanning == <<\H02, PyInt(\H01, 0)>>
DisableAllFormats == <<\H2C, PyInt(0, 0)>>
SerialProtocolConfig == <<\H60, PyInt(\H11, 0)>>
SetReadFailMsgLength == <<\H81, PyInt(\H02, 0)>>
SetReadFailMessage == <<\H82, PyInt(\H150D, 0)>>
SaveConfig == <<0, PyInt(0, 0)>>

QR == \H3F
DATAMATRIX == \H54
PDF417 == \H55
FormatRegister == {QR, DATAMATRIX, PDF417}

COMMAND == \H7E00

READ == 7
WRITE == 8
CONFIG == 9
CmdType == {READ, WRITE, CONFIG}

\* the terminator handed to read_until, b'\x0d'
CR == \H0D

(***************************************************************************)
(* The transport: the calls made on the serial connection, in order, and   *)
(* the bytes waiting in its input buffer.                                  *)
(***************************************************************************)
Event(op, data) == [op |-> op, data |-> data]

Transport(w, b) == [wire |-> w, inbuf |-> b]

Result(t, exc) == [wire |-> t.wire, inbuf |-> t.inbuf, exc |-> exc]

Min(a, b) == IF a <= b THEN a ELSE b

\* connection.read(size): the bytes present, at most size of them; fewer
\* than size when the read timeout expires first
Read(t, size) ==
    LET n == Min(size, Len(t.inbuf))
        got == SubSeq(t.inbuf, 1, n)
    IN  Transport(Append(t.wire, Event("read", got)),
                  SubSeq(t.inbuf, n + 1, Len(t.inbuf)))

\* position of the first terminator in buf, 0 when there is none
RECURSIVE IndexOf(_, _, _)
IndexOf(buf, byte, i) ==
    IF i > Len(buf) THEN 0
    ELSE IF buf[i] = byte THEN i
    ELSE IndexOf(buf, byte, i + 1)

\* connection.read_until(b'\x0d'): the bytes up to and including the first
\* terminator, or every byte present when the read timeout expires first
ReadUntil(t, terminator) ==
    LET i == IndexOf(t.inbuf, terminator, 1)
        n == IF i = 0 THEN Len(t.inbuf) ELSE i
        got == SubSeq(t.inbuf, 1, n)
    IN  Transport(Append(t.wire, Event("read_until", got)),
                  SubSeq(t.inbuf, n + 1, Len(t.inbuf)))

\* the device's answer reaches the input buffer
Arrive(t, bytes) == Transport(t.wire, t.inbuf \o bytes)

(***************************************************************************)
(* GM65.__send_command and GM65.__receive_response.                        *)
(***************************************************************************)
\* __receive_response that reads nothing
receive_response_skipped(t) == t

receive_response(t) == Read(t, 7)

\* data_size computed as bit_length // 8 + 1
data_size_of_floor_plus_one(data) == (bit_length(data) \div 8) + 1

data_size_of(data) == CeilDiv8(bit_length(data))

command_body(cmd_type, address, data) ==
    <<cmd_type>>
        \o IntToBytes(data_size_of(data), 1)
        \o IntToBytes(address, 2)
        \o DataToBytes(data, data_size_of(data))

\* command_frame with the CRC taken over header and body
command_frame_crc_over_header(cmd_type, address, data) ==
    IntToBytes(COMMAND, 2)
        \o command_body(cmd_type, address, data)
        \o crc16(IntToBytes(COMMAND, 2) \o command_body(cmd_type, address, data))

command_frame(cmd_type, address, data) ==
    IntToBytes(COMMAND, 2)
        \o command_body(cmd_type, address, data)
        \o crc16(command_body(cmd_type, address, data))

\* encodable without the check of the length byte
encodable_no_size_check(address, data) ==
    /\ IntFits(address, 2)
    /\ DataFits(data, data_size_of(data))

\* the to_bytes calls of lines 140-142 all succeed
encodable(address, data) ==
    /\ IntFits(data_size_of(data), 1)
    /\ IntFits(address, 2)
    /\ DataFits(data, data_size_of(data))

\* send_command without the acknowledgement read
send_command_no_ack(t, cmd_type, address, data, writeOk, reply) ==
    IF ~encodable(address, data)
    THEN Result(t, "OverflowError")
    ELSE LET command == command_frame(cmd_type, address, data)
         IN  IF ~writeOk
             THEN Result(Transport(Append(t.wire, Event("write_timeout", command)), t.inbuf),
                         "SerialTimeoutException")
             ELSE Result(Arrive(Transport(Append(t.wire, Event("write", command)), t.inbuf),
                                reply),
                         "")

\* writeOk: connection.write completes within write_timeout;
\* reply: what the device sends before the acknowledgement read ends
send_command(t, cmd_type, address, data, writeOk, reply) ==
    IF ~encodable(address, data)
    THEN Result(t, "OverflowError")
    ELSE LET command == command_frame(cmd_type, address, data)
         IN  IF ~writeOk
             THEN Result(Transport(Append(t.wire, Event("write_timeout", command)), t.inbuf),
                         "SerialTimeoutException")
             ELSE Result(receive_response(
                             Arrive(Transport(Append(t.wire, Event("write", command)), t.inbuf),
                                    reply)),
                         "")

\* a run of __send_command calls, cut short by the first that raises
RECURSIVE send_commands(_, _, _, _)
send_commands(t, cmds, writeOks, replies) ==
    IF cmds = <<>> THEN Result(t, "")
    ELSE LET r == send_command(t, Head(cmds)[1], Head(cmds)[2], Head(cmds)[3],
                               Head(writeOks), Head(replies))
         IN  IF r.exc # "" THEN r
             ELSE send_commands(Transport(r.wire, r.inbuf), Tail(cmds),
                                Tail(writeOks), Tail(replies))

\* ConfigureCommands with the two read-fail commands exchanged
ConfigureCommands_swapped ==
    << <<WRITE, ScanMode[1], ScanMode[2]>>,
       <<WRITE, SerialProtocolConfig[1], SerialProtocolConfig[2]>>,
       <<WRITE, SetReadFailMessage[1], SetReadFailMessage[2]>>,
       <<WRITE, SetReadFailMsgLength[1], SetReadFailMsgLength[2]>> >>

\* ConfigureCommands ending with the save-config command in place of the
\* read-fail message
ConfigureCommands_then_save ==
    << <<WRITE, ScanMode[1], ScanMode[2]>>,
       <<WRITE, SerialProtocolConfig[1], SerialProtocolConfig[2]>>,
       <<WRITE, SetReadFailMsgLength[1], SetReadFailMsgLength[2]>>,
       <<CONFIG, SaveConfig[1], SaveConfig[2]>> >>

\* GM65.__configure
ConfigureCommands ==
    << <<WRITE, ScanMode[1], ScanMode[2]>>,
       <<WRITE, SerialProtocolConfig[1], SerialProtocolConfig[2]>>,
       <<WRITE, SetReadFailMsgLength[1], SetReadFailMsgLength[2]>>,
       <<WRITE, SetReadFailMessage[1], SetReadFailMessage[2]>> >>

configure(t, writeOks, replies) ==
    send_commands(t, ConfigureCommands, writeOks, replies)


(***************************************************************************)
(* bytes.decode(): whether the bytes are well-formed UTF-8 (else           *)
(* UnicodeDecodeError).                                                    *)
(***************************************************************************)
InRange(b, lo, hi) == lo <= b /\ b <= hi

AllCont(bytes) == \A i \in 1..Len(bytes) : InRange(bytes[i], \H80, \HBF)

RECURSIVE decodable(_)
decodable(bytes) ==
    IF bytes = <<>> THEN TRUE
    ELSE LET b == Head(bytes)
             n == IF b < \H80 THEN 0
                  ELSE IF InRange(b, \HC2, \HDF) THEN 1
                  ELSE IF InRange(b, \HE0, \HEF) THEN 2
                  ELSE IF InRange(b, \HF0, \HF4) THEN 3
                  ELSE 4
         IN  /\ n < 4
             /\ Len(bytes) >= n + 1
             /\ AllCont(SubSeq(bytes, 2, n + 1))
             /\ (b = \HE0 => bytes[2] >= \HA0)
             /\ (b = \HED => bytes[2] <= \H9F)
             /\ (b = \HF0 => bytes[2] >= \H90)
             /\ (b = \HF4 => bytes[2] <= \H8F)
             /\ decodable(SubSeq(bytes, n + 2, Len(bytes)))

(***************************************************************************)
(* What the device sends.                                                  *)
(***************************************************************************)
\* a complete 7-byte acknowledgement, and one cut short by the read timeout
Ack7 == <<\H02, \H00, \H00, \H01, \H00, \H33, \H31>>
ShortAck == <<\H02, \H00, \H00>>
AckReplies == {Ack7, ShortAck}

\* barcode bytes: 'A', and 0x80 which is not UTF-8 on its own
DataBytes == {\H41, \H80}

RECURSIVE SeqsUpTo(_, _)
SeqsUpTo(S, n) ==
    IF n = 0 THEN {<<>>}
    ELSE LET shorter == SeqsUpTo(S, n - 1)
         IN  shorter \cup {Append(q, x) : q \in shorter, x \in S}

\* what arrives before the acknowledgement read of a scan trigger ends
ScanFirst == AckReplies \cup {Ack7 \o <<\H41, CR>>}

\* what arrives afterwards, before read_until ends: data with or without
\* its terminator
ScanSecond ==
    {d \o term : d \in SeqsUpTo(DataBytes, MaxData), term \in {<<>>, <<CR>>}}

(***************************************************************************)
(* State.                                                                  *)
(*   handle   "none" before GM65(...), "ready" once the constructor has    *)
(*            returned, "failed" when it raised, "deleted" after __del__   *)
(*   conn     self.connection: "absent", "open" or "closed"                *)
(*   wire     the calls made on the connection so far                      *)
(*   inbuf    bytes received and not yet read                              *)
(*   outcome  how the latest call ended                                    *)
(*   opStart  Len(wire) when the latest call began                         *)
(*   nops     calls made on the handle since construction                  *)
(*   crcIn, crcOut  argument and result of a crc16 call                    *)
(***************************************************************************)
Outcome(call, args, status, value, exc) ==
    [call |-> call, args |-> args, status |-> status, value |-> value, exc |-> exc]

Returned(call, args, value) == Outcome(call, args, "returned", value, "")

Raised(call, args, exc) == Outcome(call, args, "raised", <<>>, exc)

Init ==
    /\ handle = "none"
    /\ conn = "absent"
    /\ wire = <<>>
    /\ inbuf = <<>>
    /\ outcome = Outcome("", <<>>, "", <<>>, "")
    /\ opStart = 0
    /\ nops = 0
    /\ crcIn = <<>>
    /\ crcOut = <<>>

\* GM65(serial_port): Scanner.__init__ opens the port, then __configure
Construct ==
    /\ handle = "none"
    /\ opStart' = Len(wire)
    /\ \E openOk \in BOOLEAN, writeOks \in [1..4 -> BOOLEAN], replies \in [1..4 -> AckReplies] :
         IF ~openOk
         THEN /\ handle' = "failed"
              /\ outcome' = Raised("__init__", <<>>, "SerialException")
              /\ UNCHANGED <<conn, wire, inbuf>>
         ELSE \E r \in {configure(Transport(wire, inbuf), writeOks, replies)} :
                  /\ conn' = "open"
                  /\ wire' = r.wire
                  /\ inbuf' = r.inbuf
                  /\ handle' = IF r.exc = "" THEN "ready" ELSE "failed"
                  /\ outcome' = IF r.exc = "" THEN Returned("__init__", <<>>, <<>>)
                                ELSE Raised("__init__", <<>>, r.exc)
    /\ UNCHANGED <<nops, crcIn, crcOut>>

\* Scanner.__del__, run when the handle is dropped
Del ==
    /\ handle \in {"ready", "failed"}
    /\ handle' = "deleted"
    /\ opStart' = Len(wire)
    /\ IF conn = "absent"
       THEN /\ outcome' = Raised("__del__", <<>>, "AttributeError")
            /\ UNCHANGED <<conn, wire, inbuf>>
       ELSE /\ wire' = wire \o <<Event("flushInput", <<>>), Event("flushOutput", <<>>),
                                 Event("close", <<>>)>>
            /\ inbuf' = <<>>
            /\ conn' = "closed"
            /\ outcome' = Returned("__del__", <<>>, <<>>)
    /\ UNCHANGED <<nops, crcIn, crcOut>>

Callable(limit) == handle = "ready" /\ conn = "open" /\ nops < limit

\* the common shape of the operations that are one __send_command call
OneCommand(limit, call, args, cmd_type, address, data) ==
    /\ Callable(limit)
    /\ nops' = nops + 1
    /\ opStart' = Len(wire)
    /\ \E writeOk \in BOOLEAN, reply \in AckReplies :
         \E r \in {send_command(Transport(wire, inbuf), cmd_type, address, data, writeOk, reply)} :
             /\ wire' = r.wire
             /\ inbuf' = r.inbuf
             /\ outcome' = IF r.exc = "" THEN Returned(call, args, <<>>)
                           ELSE Raised(call, args, r.exc)
    /\ UNCHANGED <<handle, conn, crcIn, crcOut>>

\* GM65.scan, with the device answers drawn from firsts and seconds
scan(limit, firsts, seconds) ==
    /\ Callable(limit)
    /\ nops' = nops + 1
    /\ opStart' = Len(wire)
    /\ \E writeOk \in BOOLEAN, first \in firsts, second \in seconds :
         \E r \in {send_command(Transport(wire, inbuf), WRITE,
                               TriggerScanning[1], TriggerScanning[2], writeOk, first)} :
             IF r.exc # ""
             THEN /\ wire' = r.wire
                  /\ inbuf' = r.inbuf
                  /\ outcome' = Raised("scan", <<>>, r.exc)
             ELSE \E u \in {ReadUntil(Arrive(Transport(r.wire, r.inbuf), second), CR)} :
                  LET data == u.wire[Len(u.wire)].data
                  IN  /\ wire' = u.wire
                      /\ inbuf' = u.inbuf
                      /\ outcome' = IF decodable(data)
                                    THEN Returned("scan", <<>>, SubSeq(data, 1, Len(data) - 1))
                                    ELSE Raised("scan", <<>>, "UnicodeDecodeError")
    /\ UNCHANGED <<handle, conn, crcIn, crcOut>>

\* GM65.disable_all_formats
disable_all_formats(limit) ==
    OneCommand(limit, "disable_all_formats", <<>>, WRITE, ScanMode[1], ScanMode[2])

\* GM65.enable_format, with code_format drawn from formats
enable_format(limit, formats) ==
    \E code_format \in formats, enable \in BOOLEAN :
        OneCommand(limit, "enable_format", <<code_format, enable>>, WRITE, code_format, BoolInt(enable))

\* GM65.save_config
save_config(limit) ==
    OneCommand(limit, "save_config", <<>>, CONFIG, SaveConfig[1], SaveConfig[2])

\* Scanner.enable_all_formats, inherited: a stub
enable_all_formats(limit) ==
    /\ Callable(limit)
    /\ nops' = nops + 1
    /\ opStart' = Len(wire)
    /\ outcome' = Returned("enable_all_formats", <<>>, <<>>)
    /\ UNCHANGED <<handle, conn, wire, inbuf, crcIn, crcOut>>

Scan == scan(MaxOps, ScanFirst, ScanSecond)

DisableAll == disable_all_formats(MaxOps)

EnableFormat == enable_format(MaxOps, FormatRegister)

SaveConfigOp == save_config(MaxOps)

EnableAll == enable_all_formats(MaxOps)

Next ==
    \/ Construct
    \/ Scan
    \/ DisableAll
    \/ EnableFormat
    \/ SaveConfigOp
    \/ EnableAll
    \/ Del

Spec == Init /\ [][Next]_vars

(***************************************************************************)
(* Longer runs of operations on one handle, with a device that answers a   *)
(* scan with the one barcode 'A', terminated or cut off.                   *)
(***************************************************************************)
SeqScanSecond == {<<\H41, CR>>, <<\H41>>}

SeqScan == scan(MaxSeq, AckReplies, SeqScanSecond)

SeqDisableAll == disable_all_formats(MaxSeq)

SeqEnableFormat == enable_format(MaxSeq, {QR})

SeqSaveConfig == save_config(MaxSeq)

SeqEnableAll == enable_all_formats(MaxSeq)

NextSeq ==
    \/ Construct
    \/ SeqScan
    \/ SeqDisableAll
    \/ SeqEnableFormat
    \/ SeqSaveConfig
    \/ SeqEnableAll
    \/ Del

SpecSeq == Init /\ [][NextSeq]_vars


(***************************************************************************)
(* __send_command called with arbitrary arguments on a handle whose        *)
(* construction went through.                                              *)
(***************************************************************************)
AddressSample == {0, \H82, \HFFFF, \H10000, -1}

DataSample ==
    {PyInt(0, 0), PyInt(1, 0), PyInt(\HD5, 0), PyInt(\H150D, 0), PyInt(\H10000, 0)}

\* values of 255 bytes (the most the length byte can state) and of 256 bytes
LongDataSample == {PyInt(\HFF, 254), PyInt(1, 255)}

CommandSample ==
    (CmdType \X AddressSample \X DataSample)
        \cup ({WRITE} \X {\H82} \X LongDataSample)

InitCmd ==
    \E r \in {configure(Transport(<<>>, <<>>), <<TRUE, TRUE, TRUE, TRUE>>,
                        <<Ack7, Ack7, Ack7, Ack7>>)} :
        /\ handle = "ready"
        /\ conn = "open"
        /\ wire = r.wire
        /\ inbuf = r.inbuf
        /\ outcome = Returned("__init__", <<>>, <<>>)
        /\ opStart = 0
        /\ nops = 0
        /\ crcIn = <<>>
        /\ crcOut = <<>>

CallSendCommand ==
    \E args \in CommandSample :
        OneCommand(MaxCalls, "__send_command", args, args[1], args[2], args[3])

NextCmd == CallSendCommand

SpecCmd == InitCmd /\ [][NextCmd]_vars

(***************************************************************************)
(* crc16 called on a byte string.                                          *)
(***************************************************************************)
CrcBytes == {\H00, \H31, \HFF}

\* b"123456789"
Check123456789 == <<\H31, \H32, \H33, \H34, \H35, \H36, \H37, \H38, \H39>>

CrcInputs ==
    {<<b>> : b \in Byte} \cup SeqsUpTo(CrcBytes, MaxCrcLen) \cup {Check123456789}

InitCrc ==
    /\ handle = "none"
    /\ conn = "absent"
    /\ wire = <<>>
    /\ inbuf = <<>>
    /\ outcome = Outcome("", <<>>, "", <<>>, "")
    /\ opStart = 0
    /\ nops = 0
    /\ crcIn \in CrcInputs
    /\ crcOut = <<>>

ComputeCrc ==
    /\ crcOut = <<>>
    /\ crcOut' = crc16(crcIn)
    /\ UNCHANGED <<handle, conn, wire, inbuf, outcome, opStart, nops, crcIn>>

NextCrc == ComputeCrc

SpecCrc == InitCrc /\ [][NextCrc]_vars

(***************************************************************************)
(* Properties.                                                             *)
(***************************************************************************)
\* the transport calls of the latest call
LastOpEvents == SubSeq(wire, opStart + 1, Len(wire))

\* CRC-16/CCITT bit by bit: polynomial 0x1021, no reflection, no final XOR
RefCrcShift(crc) ==
    IF crc >= 32768 THEN Xor((crc * 2) % 65536, \H1021) ELSE crc * 2

\* one input byte: XOR it into the high byte, then eight shifts
RefCrcByte(crc, byte) ==
    LET s0 == Xor(crc, byte * 256)
        s1 == RefCrcShift(s0)
        s2 == RefCrcShift(s1)
        s3 == RefCrcShift(s2)
        s4 == RefCrcShift(s3)
        s5 == RefCrcShift(s4)
        s6 == RefCrcShift(s5)
        s7 == RefCrcShift(s6)
    IN  RefCrcShift(s7)

\* the reference CRC continued from crc over data, split in halves as above
RECURSIVE RefCrc(_, _)
RefCrc(crc, data) ==
    IF data = <<>> THEN crc
    ELSE IF Len(data) = 1 THEN RefCrcByte(crc, data[1])
    ELSE LET half == Len(data) \div 2
             mid == RefCrc(crc, SubSeq(data, 1, half))
         IN  IF mid >= 0 THEN RefCrc(mid, SubSeq(data, half + 1, Len(data)))
             ELSE mid

RefCrcBytes(data) == <<RefCrc(0, data) \div 256, RefCrc(0, data) % 256>>

\* the value of a big-endian byte string
RECURSIVE BigEndian(_)
BigEndian(bytes) ==
    IF bytes = <<>> THEN 0
    ELSE 256 * BigEndian(SubSeq(bytes, 1, Len(bytes) - 1)) + bytes[Len(bytes)]

\* bytes is a big-endian representation of the payload value m * 256^k
PayloadIs(bytes, data) ==
    IF data.m = 0 THEN \A i \in 1..Len(bytes) : bytes[i] = 0
    ELSE /\ Len(bytes) >= data.k
         /\ \A i \in (Len(bytes) - data.k + 1)..Len(bytes) : bytes[i] = 0
         /\ BigEndian(SubSeq(bytes, 1, Len(bytes) - data.k)) = data.m

\* the number of bytes the payload value needs
NeededBytes(data) ==
    IF data.m = 0 THEN 0
    ELSE data.k + (IF data.m < 256 THEN 1
                   ELSE IF data.m < 65536 THEN 2
                   ELSE IF data.m < 16777216 THEN 3 ELSE 4)

\* C1: the frame __send_command writes is 7E 00, the type byte, one length
\* byte N, the address in 2 bytes big-endian, N payload bytes big-endian, and
\* the CRC16 of type|length|address|payload in 2 bytes big-endian;
\* (WRITE, 0x00, 0xD5) gives 7E 00 08 01 00 00 D5 and that CRC.
C1_FrameLayout ==
    (outcome.call = "__send_command" /\ outcome.status = "returned") =>
        LET f == LastOpEvents[1].data
            n == f[4]
        IN  /\ Len(LastOpEvents) = 2
            /\ LastOpEvents[1].op = "write"
            /\ Len(f) = 8 + n
            /\ f[1] = \H7E /\ f[2] = \H00
            /\ f[3] = outcome.args[1]
            /\ 256 * f[5] + f[6] = outcome.args[2]
            /\ PayloadIs(SubSeq(f, 7, 6 + n), outcome.args[3])
            /\ SubSeq(f, 7 + n, 8 + n) = RefCrcBytes(SubSeq(f, 3, 6 + n))
            /\ (outcome.args = <<WRITE, 0, PyInt(\HD5, 0)>> =>
                    SubSeq(f, 1, 7) = <<\H7E, \H00, \H08, \H01, \H00, \H00, \HD5>>)

C1_Witness ==
    /\ outcome.call = "__send_command"
    /\ outcome.status = "returned"
    /\ outcome.args = <<WRITE, 0, PyInt(\HD5, 0)>>

\* C2: crc16(b) is the bit-by-bit CRC-16/CCITT (polynomial 0x1021, initial
\* value 0, no reflection, no final XOR) of b, for every byte string b, the
\* empty one (0x0000) and each single byte (the 256 table entries) included.
C2_CrcMatchesReference ==
    crcOut # <<>> => crcOut = RefCrcBytes(crcIn)

C2_Witness ==
    crcOut # <<>> /\ Len(crcIn) = 2 /\ crcIn[1] = \HFF

\* C3 as stated: crc16 of "123456789" is 0x29B1.
C3_Check29B1 ==
    (crcOut # <<>> /\ crcIn = Check123456789) => crcOut = <<\H29, \HB1>>

\* C3 amended: crc16 of "123456789" is 0x31C3.
C3_Check31C3 ==
    (crcOut # <<>> /\ crcIn = Check123456789) => crcOut = <<\H31, \HC3>>

C3_Witness ==
    crcOut # <<>> /\ crcIn = Check123456789

\* a command frame whose value is 0 was asked for by the latest call
ZeroValueCall ==
    \/ outcome.call = "save_config"
    \/ outcome.call = "enable_format" /\ outcome.args[2] = FALSE

\* C4: a command sent with payload value 0 (save_config, enable_format with
\* enable=False) is written with length byte 0x01 and the one payload byte
\* 0x00; no frame is written with length byte 0x00.
C4_ZeroValueOneByte ==
    /\ (ZeroValueCall /\ outcome.status = "returned") =>
           /\ LastOpEvents[1].data[4] = \H01
           /\ Len(LastOpEvents[1].data) = 9
           /\ LastOpEvents[1].data[7] = \H00
    /\ \A i \in 1..Len(wire) : wire[i].op = "write" => wire[i].data[4] # \H00

\* the trigger frame: WRITE, address 0x02, value 0x01
TriggerFrame ==
    <<\H7E, \H00, \H08, \H01, \H00, \H02, \H01>>
        \o RefCrcBytes(<<\H08, \H01, \H00, \H02, \H01>>)

\* scan got past its write
ScanWrote ==
    outcome.call = "scan" /\ outcome.exc \in {"", "UnicodeDecodeError"}

\* C5 as stated: scan writes the trigger frame and then makes one read, the
\* read-until-0x0D, with no 7-byte acknowledgement read in between.
C5_ScanSkipsAckRead ==
    ScanWrote =>
        /\ Len(LastOpEvents) = 2
        /\ LastOpEvents[1] = Event("write", TriggerFrame)
        /\ LastOpEvents[2].op = "read_until"

\* C5 amended: scan writes the trigger frame, makes the 7-byte
\* acknowledgement read, and then the read-until-0x0D.
C5_ScanReadsAckThenResult ==
    ScanWrote =>
        /\ Len(LastOpEvents) = 3
        /\ LastOpEvents[1] = Event("write", TriggerFrame)
        /\ LastOpEvents[2].op = "read"
        /\ Len(LastOpEvents[2].data) <= 7
        /\ LastOpEvents[3].op = "read_until"

C5_Witness ==
    /\ outcome.call = "scan"
    /\ outcome.status = "returned"
    /\ outcome.value = <<\H41>>
    /\ wire[Len(wire)].data = <<\H41, CR>>

\* the read_until of the latest scan ended on its timeout
ScanTimedOut ==
    /\ ScanWrote
    /\ wire[Len(wire)].op = "read_until"
    /\ \A i \in 1..Len(wire[Len(wire)].data) : wire[Len(wire)].data[i] # CR

\* C6: when read_until times out with no terminator received, scan ends in
\* a failure and returns no byte string.
C6_TimeoutIsFailure ==
    ScanTimedOut => outcome.status = "raised"

\* C7: disable_all_formats writes one WRITE frame, to the disable-all-formats
\* register 0x2C with value 0x00.
C7_DisableAllFrame ==
    (outcome.call = "disable_all_formats" /\ outcome.status = "returned") =>
        LET f == LastOpEvents[1].data
        IN  /\ Len(SelectSeq(LastOpEvents, LAMBDA e : e.op = "write")) = 1
            /\ f[3] = \H08
            /\ 256 * f[5] + f[6] = \H2C
            /\ BigEndian(SubSeq(f, 7, 6 + f[4])) = 0

\* an acknowledgement read of the constructor came back short
ShortAckInInit ==
    /\ outcome.call = "__init__"
    /\ \E i \in 1..Len(wire) : wire[i].op = "read" /\ Len(wire[i].data) < 7

\* C8: when an acknowledgement read of the initialisation sequence returns
\* fewer than 7 bytes, the constructor fails and raises.
C8_ShortAckFailsInit ==
    ShortAckInInit => (outcome.status = "raised" /\ handle = "failed")

\* the four frames of the initialisation sequence
ConfigFrame(address, payload) ==
    <<\H7E, \H00, \H08, Len(payload)>> \o <<address \div 256, address % 256>> \o payload
        \o RefCrcBytes(<<\H08, Len(payload)>> \o <<address \div 256, address % 256>> \o payload)

ConfigFrames ==
    << ConfigFrame(\H00, <<\HD5>>), ConfigFrame(\H60, <<\H11>>),
       ConfigFrame(\H81, <<\H02>>), ConfigFrame(\H82, <<\H15, \H0D>>) >>

\* C9: configure writes four WRITE frames in the order scan-mode (0x00, 0xD5),
\* serial-protocol-config (0x60, 0x11), read-fail-message-length (0x81, 0x02),
\* read-fail-message (0x82, 0x150D), each followed by its acknowledgement
\* read before the next is written; a constructor cut short by a write
\* timeout has made a prefix of these calls.
C9_ConfigureSequence ==
    (outcome.call = "__init__" /\ conn = "open") =>
        /\ outcome.status = "returned" => Len(wire) = 8
        /\ Len(wire) <= 8
        /\ \A j \in 1..Len(wire) :
              IF j % 2 = 1
              THEN /\ wire[j].data = ConfigFrames[(j + 1) \div 2]
                   /\ \/ wire[j].op = "write"
                      \/ wire[j].op = "write_timeout" /\ j = Len(wire)
                            /\ outcome.status = "raised"
              ELSE wire[j].op = "read"

C9_Witness ==
    /\ outcome = Returned("__init__", <<>>, <<>>)
    /\ handle = "ready"
    /\ Len(wire) = 8
    /\ wire[2].data = ShortAck

\* the arguments of the latest __send_command exceed a field
OverLimit ==
    /\ outcome.call = "__send_command"
    /\ \/ outcome.args[2] < 0
       \/ outcome.args[2] > 65535
       \/ NeededBytes(outcome.args[3]) >= 256

\* C10: __send_command with an address that does not fit in 16 bits or a
\* payload value needing 256 bytes or more raises, and makes no call on the
\* transport: nothing is written and nothing is read.
C10_OverLimitRejected ==
    OverLimit =>
        /\ outcome.status = "raised"
        /\ outcome.exc = "OverflowError"
        /\ LastOpEvents = <<>>

C10_Witness ==
    /\ outcome.call = "__send_command"
    /\ outcome.args = <<WRITE, \H82, PyInt(1, 255)>>
    /\ outcome.status = "raised"


\* the number of zero bytes that end a byte string
TrailingZeros(bytes) ==
    LET nonzero == {i \in 1..Len(bytes) : bytes[i] # 0}
    IN  IF nonzero = {} THEN Len(bytes)
        ELSE Len(bytes) - (CHOOSE i \in nonzero : \A j \in nonzero : j <= i)

\* a payload value m * 256^k with every factor 256 of m moved into k
RECURSIVE Normal(_)
Normal(data) ==
    IF data.m = 0 THEN PyInt(0, 0)
    ELSE IF data.m % 256 = 0 THEN Normal(PyInt(data.m \div 256, data.k + 1))
    ELSE data

\* a frame read back: type from byte 3, length from byte 4, address from
\* bytes 5-6 and the value of the payload bytes, big-endian
ParseFrame(f) ==
    LET n == f[4]
        payload == SubSeq(f, 7, 6 + n)
        k == TrailingZeros(payload)
    IN  [cmd_type |-> f[3],
         address |-> 256 * f[5] + f[6],
         value |-> IF k = n THEN PyInt(0, 0)
                   ELSE PyInt(BigEndian(SubSeq(payload, 1, n - k)), k),
         size |-> n]

\* C11: parsing the frame written for (type, address, value) gives back the
\* type, the address and the value, and the frame is 8 + N bytes long.
C11_RoundTrip ==
    (outcome.call = "__send_command" /\ outcome.status = "returned") =>
        LET f == LastOpEvents[1].data
            p == ParseFrame(f)
        IN  /\ p.cmd_type = outcome.args[1]
            /\ p.address = outcome.args[2]
            /\ p.value = Normal(outcome.args[3])
            /\ Len(f) = 8 + p.size

C11_Witness ==
    /\ outcome.call = "__send_command"
    /\ outcome.status = "returned"
    /\ outcome.args = <<CONFIG, \HFFFF, PyInt(\H150D, 0)>>


\* C12: the connection is flushed and closed on every exit path of a handle's
\* life (normal teardown, failed open, a command of the initialisation
\* sequence raising), and teardown never acts on a connection that was never
\* created: every __del__ finds its connection and leaves it closed.
C12_TeardownAlwaysCloses ==
    /\ handle = "deleted" => conn # "open"
    /\ outcome.call = "__del__" =>
           /\ outcome.status = "returned"
           /\ conn = "closed"
           /\ Len(wire) >= 3
           /\ SubSeq(wire, Len(wire) - 2, Len(wire)) =
                  <<Event("flushInput", <<>>), Event("flushOutput", <<>>),
                    Event("close", <<>>)>>


\* C13: for a payload value >= 1 the length byte is the least number of bytes
\* that holds the value and the payload is its big-endian form, first byte
\* non-zero; value 0x150D at address 0x82 gives length 02 and payload 15 0D,
\* value 0xD5 gives length 01.
C13_MinimalPayload ==
    (/\ outcome.call = "__send_command"
     /\ outcome.status = "returned"
     /\ outcome.args[3].m >= 1) =>
        LET f == LastOpEvents[1].data
            value == outcome.args[3]
        IN  /\ f[4] = NeededBytes(value)
            /\ f[4] >= 1
            /\ f[7] # 0
            /\ PayloadIs(SubSeq(f, 7, Len(f) - 2), value)
            /\ (value = PyInt(\H150D, 0) /\ outcome.args[2] = \H82) =>
                   SubSeq(f, 4, 8) = <<\H02, \H00, \H82, \H15, \H0D>>
            /\ value = PyInt(\HD5, 0) => (f[4] = \H01 /\ f[7] = \HD5)

C13_Witness ==
    /\ outcome.call = "__send_command"
    /\ outcome.status = "returned"
    /\ outcome.args = <<WRITE, \H82, PyInt(\H150D, 0)>>


\* the latest scan read a complete acknowledgement and then data closed by the
\* terminator
ScanAnswered ==
    /\ ScanWrote
    /\ LastOpEvents[2].data = Ack7
    /\ LastOpEvents[3].data # <<>>
    /\ LastOpEvents[3].data[Len(LastOpEvents[3].data)] = CR

\* C14: when the device answers the trigger with a 7-byte acknowledgement,
\* data bytes d (none 0x0D) and the terminator 0x0D, scan returns exactly d:
\* terminator stripped, no data byte dropped, no acknowledgement byte included.
C14_ScanReturnsData ==
    ScanAnswered =>
        /\ outcome.status = "returned"
        /\ outcome.value \o <<CR>> = LastOpEvents[3].data


\* connection.write was called, whether it completed or timed out
IsWriteCall(e) == e.op \in {"write", "write_timeout"}

IsReadCall(e) == e.op \in {"read", "read_until"}

\* C15 as stated: over any sequence of operations on one handle, a response
\* read lies between every two transport writes.
C15_ReadBetweenWrites ==
    \A i \in 1..Len(wire) : \A j \in (i + 1)..Len(wire) :
        (IsWriteCall(wire[i]) /\ IsWriteCall(wire[j])) =>
            \E k \in (i + 1)..(j - 1) : IsReadCall(wire[k])

\* C15 amended: every transport write that completes is followed at once by
\* the 7-byte response read, so a read lies between a completed write and
\* the next write.
C15_CompletedWriteThenRead ==
    \A i \in 1..Len(wire) :
        wire[i].op = "write" =>
            /\ i < Len(wire)
            /\ wire[i + 1].op = "read"

C15_Witness ==
    /\ nops = 2
    /\ Len(wire) >= 12
    /\ wire[9].op = "write"
    /\ wire[Len(wire) - 1].op = "write"
    /\ wire[Len(wire)].op = "read"


\* the write calls made on the connection, in order
WriteCalls == SelectSeq(wire, IsWriteCall)

\* the constructor has returned the handle
Constructed == handle = "ready" \/ nops > 0

\* C16: the constructor runs the configuration sequence once before the
\* handle is returned: the first four frames written on a connection are the
\* four configuration frames, no frame of another operation is written before
\* them, and the constructor writes no CONFIG-type frame.
C16_ConfigureFirstAndOnce ==
    /\ \A i \in 1..Len(WriteCalls) : i <= 4 => WriteCalls[i].data = ConfigFrames[i]
    /\ Constructed =>
           /\ Len(WriteCalls) >= 4
           /\ \A i \in 1..4 : WriteCalls[i].op = "write"
    /\ (Constructed /\ nops = 0) => Len(WriteCalls) = 4
    /\ outcome.call = "__init__" =>
           \A i \in 1..Len(WriteCalls) : WriteCalls[i].data[3] # CONFIG
    /\ \A i \in 1..Len(WriteCalls) : i > 4 => nops > 0

C16_Witness ==
    /\ outcome = Returned("save_config", <<>>, <<>>)
    /\ Len(WriteCalls) = 5
    /\ WriteCalls[5].data[3] = CONFIG


\* C17: for every command body b that __send_command builds, crc16 of b
\* followed by the two bytes crc16(b) is 0x0000: the CRC over everything
\* after the 2-byte header of a written frame is zero.
C17_CrcResidueZero ==
    \A i \in (opStart + 1)..Len(wire) :
        IsWriteCall(wire[i]) =>
            LET f == wire[i].data
            IN  \E b \in {SubSeq(f, 3, Len(f) - 2)} :
                    /\ f = IntToBytes(COMMAND, 2) \o b \o crc16(b)
                    /\ crc16(SubSeq(f, 3, Len(f))) = <<\H00, \H00>>

C17_Witness ==
    /\ outcome.call = "__send_command"
    /\ outcome.status = "returned"
    /\ outcome.args = <<WRITE, \H82, PyInt(\HFF, 254)>>
    /\ Len(wire[Len(wire) - 1].data) = 263

====
